---- MODULE Spec2Model ----
(***************************************************************************)
(* Model of the persisted-state core of hag-toolkit-live (the storage      *)
(* module: settings, roster, auction targets and the budget reconciler).   *)
(* The localStorage slots are the state; every exported function is one    *)
(* action.                                                                 *)
(*                                                                         *)
(* JavaScript values.  A scalar that the code passes through Number() is   *)
(* modelled as a record [k, n]:                                            *)
(*    k = "num"     the integer n                                          *)
(*    k = "frac"    the number n + 1/2 (n >= 0)                            *)
(*    k = "quarter" the number n + 1/4 (n >= 0)                            *)
(*    k = "nan"     the number NaN                                         *)
(*    k = "str"     a non-numeric string such as "abc"                     *)
(*    k = "numstr"  the string spelling the integer n                      *)
(*    k = "null"    null                                                   *)
(*    k = "empty"   the empty string                                       *)
(* undefined is a field missing from the record's DOMAIN.  Objects are     *)
(* functions over the names of the fields they carry.                      *)
(***************************************************************************)
EXTENDS Integers, Sequences, FiniteSets, TLC

VARIABLES
    settingsSlot,   \* localStorage["hag_settings"]: a document, or Absent
    rosterSlot,     \* localStorage["hag_roster_v1"]: sequence of entries
    targetsSlot,    \* localStorage["hag_auction_targets_v1"]: sequence of targets
    pricesSlot,     \* localStorage["hag_live_prices_v1"]: map key -> price
    call,           \* the call that produced this state: name, result, effects
    writers         \* per page that has the app open: the addToRosterFromCsv
                    \* it is in the middle of, with the roster it has read

vars == <<settingsSlot, rosterSlot, targetsSlot, pricesSlot, call, writers>>

----------------------------------------------------------------------------
(* Bounds of the model *)

MaxRaw == 2         \* longest roster found in storage at start
MaxRoster == 2      \* longest roster addToRosterFromCsv may grow
MaxTargets == 2     \* longest auction-target list addAuctionTarget may grow
MaxCalls == 5       \* longest sequence of calls

----------------------------------------------------------------------------
(* JavaScript scalars *)

Num(i) == [k |-> "num", n |-> i]
Frac(i) == [k |-> "frac", n |-> i]
Quarter(i) == [k |-> "quarter", n |-> i]
NumStr(i) == [k |-> "numstr", n |-> i]
NaN == [k |-> "nan", n |-> 0]
Str == [k |-> "str", n |-> 0]
Null == [k |-> "null", n |-> 0]
Empty == [k |-> "empty", n |-> 0]

Max(a, b) == IF a >= b THEN a ELSE b
Min(a, b) == IF a <= b THEN a ELSE b

\* Number(v)
ToNumber(v) ==
    CASE v.k = "num" -> v
      [] v.k = "frac" -> v
      [] v.k = "quarter" -> v
      [] v.k = "numstr" -> Num(v.n)
      [] v.k = "null" -> Num(0)
      [] v.k = "empty" -> Num(0)
      [] OTHER -> NaN

\* Number.isFinite(v), v a number
IsFinite(v) == v.k \in {"num", "frac", "quarter"}

\* v > 0, v a finite number
IsPositive(v) == IF v.k = "num" THEN v.n > 0 ELSE v.n >= 0

\* Math.round(v), v a finite number: halves go up
Round(v) == IF v.k = "frac" THEN v.n + 1 ELSE v.n

\* Math.trunc(v), v a finite number
Trunc(v) == v.n

\* twice the value of a finite number (an integer also for n + 1/2)
Twice(v) == IF v.k = "frac" THEN 2 * v.n + 1 ELSE 2 * v.n

\* the element of a one-element set: The({e(x) : x \in {v}}) is e(v), with v
\* evaluated once
The(S) == CHOOSE x \in S : TRUE

\* JSON.parse(JSON.stringify(v)) of a scalar: NaN is written as null
JsonScalar(v) == IF v.k = "nan" THEN Null ELSE v

\* obj.f ?? dflt
Coalesce(obj, f, dflt) ==
    IF f \in DOMAIN obj /\ obj[f] # Null THEN obj[f] ELSE dflt

\* obj.f ?? dflt for a string-valued field
StrField(obj, f, dflt) == IF f \in DOMAIN obj THEN obj[f] ELSE dflt

\* { ...a, ...b }: the fields of both, b's value where both have the field
Spread(a, b) == b @@ a

\* x || y on strings
OrStr(x, y) == IF x # "" THEN x ELSE y

----------------------------------------------------------------------------
(* Names and the key resolver (player-key.js) *)

\* String(s).trim()
Trim(s) ==
    CASE s = " a " -> "a"
      [] s = "Pit " -> "Pit"
      [] OTHER -> s

\* String(s).toLowerCase()
ToLowerCase(s) ==
    CASE s = "A" -> "a"
      [] s = "B" -> "b"
      [] s = "Pit" -> "pit"
      [] s = "Pit " -> "pit "
      [] OTHER -> s

\* normalizeName: insensitive to case and surrounding whitespace
normalizeName(s) == ToLowerCase(Trim(s))

\* getPlayerKey({ Type, Name })
getPlayerKey(type, name) == type \o "|" \o normalizeName(name)

----------------------------------------------------------------------------
(* Roster *)

toInt(val, fallback) ==
    LET n == ToNumber(val)
    IN  IF IsFinite(n) THEN Trunc(n) ELSE fallback

\* as clampInt, the upper limit not applied
clampInt_NoMax(n, min, max) == Max(min, toInt(n, min))

clampInt(n, min, max) ==
    LET x == toInt(n, min)
    IN  Max(min, Min(max, x))

normalizeRosterPlayer(player) ==
    The({LET underContract ==
                 IF "underContract" \in DOMAIN p THEN p.underContract ELSE FALSE
             contractTotal == clampInt(Coalesce(p, "contractTotal", Num(1)), 1, 10)
             contractYear ==
                 clampInt(Coalesce(p, "contractYear", Num(1)), 1, contractTotal)
             price == Max(0, toInt(Coalesce(p, "price", Num(0)), 0))
         IN  [id |-> StrField(p, "id", "undefined"),
              name |-> StrField(p, "name", ""),
              type |-> IF StrField(p, "type", "") \in {"hit", "pit"}
                       THEN p.type ELSE "hit",
              team |-> StrField(p, "team", ""),
              pos |-> StrField(p, "pos", ""),
              underContract |-> underContract,
              contractYear |-> Num(contractYear),
              contractTotal |-> Num(contractTotal),
              price |-> Num(price)] : p \in {player}})

\* index of the first element of seq whose id is id, 0 when there is none
FindIndex(seq, id) ==
    IF \E i \in 1..Len(seq) : StrField(seq[i], "id", "undefined") = id
    THEN CHOOSE i \in 1..Len(seq) :
            /\ StrField(seq[i], "id", "undefined") = id
            /\ \A j \in 1..(i - 1) : StrField(seq[j], "id", "undefined") # id
    ELSE 0

\* as MergeRaw, a first-seen entry keeping the id it was stored with
MergeRaw_KeepsStoredId(map, raw) ==
    The({LET typeRaw == ToLowerCase(Trim(r.type))
             type == IF typeRaw = "pit" THEN "pit" ELSE "hit"
             name == Trim(r.name)
             at == FindIndex(byId, r.id)
         IN  IF at = 0
             THEN Append(byId, Spread(r, [type |-> type, name |-> name]))
             ELSE [byId EXCEPT ![at] =
                     normalizeRosterPlayer(
                         Spread(Spread(byId[at], r), [type |-> type, name |-> name]))]
         : byId \in {map}, r \in {normalizeRosterPlayer(raw)}})

\* one turn of getRoster's loop: byId (an insertion-ordered Map, kept as the
\* sequence of its values) after raw has been processed
MergeRaw(map, raw) ==
    The({LET typeRaw == ToLowerCase(Trim(r.type))
             type == IF typeRaw = "pit" THEN "pit" ELSE "hit"
             name == Trim(r.name)
             nextId == getPlayerKey(type, name)
             at == FindIndex(byId, nextId)
             prev == byId[at]
         IN  IF at = 0
             THEN Append(byId, Spread(r, [id |-> nextId, type |-> type, name |-> name]))
             ELSE [byId EXCEPT ![at] =
                     normalizeRosterPlayer(
                         Spread(Spread(prev, r),
                                [id |-> nextId, type |-> type, name |-> name,
                                 underContract |-> prev.underContract \/ r.underContract,
                                 contractYear |->
                                     IF IsFinite(ToNumber(prev.contractYear))
                                     THEN prev.contractYear ELSE r.contractYear,
                                 contractTotal |->
                                     IF IsFinite(ToNumber(prev.contractTotal))
                                     THEN prev.contractTotal ELSE r.contractTotal,
                                 price |->
                                     IF IsFinite(ToNumber(prev.price))
                                     THEN prev.price ELSE r.price]))]
         : byId \in {map}, r \in {normalizeRosterPlayer(raw)}})

RECURSIVE Migrate(_, _)
Migrate(byId, rest) ==
    IF rest = <<>> THEN byId ELSE Migrate(MergeRaw(byId, Head(rest)), Tail(rest))

\* the list getRoster returns for the stored roster
GetRosterResult(stored) == IF Len(stored) > 0 THEN Migrate(<<>>, stored) ELSE stored

\* as GetRosterChanged, every non-empty roster written back
GetRosterChanged_Always(stored) == Len(stored) > 0

\* getRoster's "changed": whether it writes the migrated list back
GetRosterChanged(stored) ==
    LET migrated == Migrate(<<>>, stored)
    IN  /\ Len(stored) > 0
        /\ \/ Len(migrated) # Len(stored)
           \/ \E i \in 1..Len(migrated) :
                  migrated[i].id # StrField(stored[i], "id", "undefined")

\* the roster slot after getRoster has run
GetRosterStored(stored) ==
    IF GetRosterChanged(stored) THEN GetRosterResult(stored) ELSE stored

----------------------------------------------------------------------------
(* Settings *)

WeightKeys ==
    {"AVG", "OPS", "TB", "HR", "RBI", "R", "SB",
     "ERA", "WHIP", "IP", "QS", "K", "SV", "HLD"}

DEFAULT_WEIGHTS == [c \in WeightKeys |-> Num(1)]

\* no document in the slot
Absent == [absent |-> TRUE]

\* typeof v === "object" && v (scalars are the records with a k field)
IsObject(v) == "k" \notin DOMAIN v

\* obj.f == null
IsNullish(obj, f) == f \notin DOMAIN obj \/ obj[f] = Null

\* obj without its field f
Delete(obj, f) == The({[g \in DOMAIN o \ {f} |-> o[g]] : o \in {obj}})

\* as migrateWeights, SBN copied over an SB that is there
migrateWeights_Always(weights) ==
    The({IF ~IsNullish(obj, "SBN")
         THEN Delete(Spread(obj, [SB |-> obj.SBN]), "SBN")
         ELSE obj : obj \in {weights}})

migrateWeights(weights) ==
    The({IF IsNullish(obj, "SB") /\ ~IsNullish(obj, "SBN")
         THEN Delete(Spread(obj, [SB |-> obj.SBN]), "SBN")
         ELSE obj : obj \in {weights}})

\* the empty object {}
EmptyObj == [f \in {} |-> Null]

normalizeCategoryWeights(partial) ==
    The({[c \in WeightKeys |->
             LET n == IF c \in DOMAIN obj THEN ToNumber(obj[c]) ELSE NaN
             IN  IF IsFinite(n) THEN n ELSE DEFAULT_WEIGHTS[c]]
         : obj \in {migrateWeights(IF IsObject(partial) THEN partial ELSE EmptyObj)}})

\* the fallback document of getSettings
DefaultSettings ==
    [budget_total |-> Num(300),
     budget_remaining |-> Num(300),
     hitter_slots_total |-> Num(14),
     pitcher_slots_total |-> Num(9),
     category_weights |-> DEFAULT_WEIGHTS,
     category_weights_updated_at |-> Null,
     value_mode |-> "proj"]

\* load(key, fallback) for the settings slot
LoadSettings(slot) == IF slot = Absent THEN DefaultSettings ELSE slot

\* obj.f, undefined (a missing field) read as null
FieldOrNull(obj, f) == IF f \in DOMAIN obj THEN obj[f] ELSE Null

\* the document getSettings returns
GetSettingsResult(slot) ==
    The({Spread(s, [category_weights |->
                        normalizeCategoryWeights(FieldOrNull(s, "category_weights"))])
         : s \in {LoadSettings(slot)}})

\* JSON.parse(JSON.stringify(w)) of a category_weights value
JsonWeights(weights) ==
    The({IF IsObject(w) THEN [c \in DOMAIN w |-> JsonScalar(w[c])] ELSE JsonScalar(w)
         : w \in {weights}})

\* JSON.parse(JSON.stringify(doc)) of a settings document
JsonSettings(settings) ==
    The({[f \in DOMAIN doc |->
             CASE f = "category_weights" -> JsonWeights(doc[f])
               [] f = "value_mode" -> doc[f]
               [] OTHER -> JsonScalar(doc[f])] : doc \in {settings}})

\* as SetSettingsStored, the merged weights saved as they come
SetSettingsStored_NoNormalize(slot, next) ==
    JsonSettings(Spread(GetSettingsResult(slot), IF IsObject(next) THEN next ELSE EmptyObj))

\* the document setSettings(next) saves
SetSettingsStored(slot, next) ==
    The({JsonSettings(
             Spread(merged, [category_weights |->
                                normalizeCategoryWeights(
                                    FieldOrNull(merged, "category_weights"))]))
         : merged \in {Spread(GetSettingsResult(slot),
                              IF IsObject(next) THEN next ELSE EmptyObj)}})

\* as SetCategoryWeightsResult, the weights already persisted left out of
\* the merge
SetCategoryWeightsResult_DropsExisting(slot, nextWeights) ==
    normalizeCategoryWeights(
        Spread(DEFAULT_WEIGHTS, IF IsObject(nextWeights) THEN nextWeights ELSE EmptyObj))

\* the weights setCategoryWeights(nextWeights) saves and returns
SetCategoryWeightsResult(slot, nextWeights) ==
    normalizeCategoryWeights(
        Spread(Spread(DEFAULT_WEIGHTS, GetSettingsResult(slot).category_weights),
               IF IsObject(nextWeights) THEN nextWeights ELSE EmptyObj))

----------------------------------------------------------------------------
(* The record of a call: its place in the sequence of calls, what was      *)
(* called, what it returned, which slots it wrote and which notifications  *)
(* it dispatched.                                                          *)

NoCall == [seq |-> 0, op |-> "none", ret |-> Null, wrote |-> {}, events |-> <<>>]

\* the record of the next call
Called(op, ret, wrote, events) ==
    [seq |-> call.seq + 1, op |-> op, ret |-> ret, wrote |-> wrote, events |-> events]

\* the outcome of a call that throws (a TypeError) instead of returning
Thrown == [thrown |-> "TypeError"]

\* the caller makes at most MaxCalls calls
CanCall == call.seq < MaxCalls

\* the pages that have the app open on the same localStorage
Writers == {"w1", "w2"}

\* a page that is not inside addToRosterFromCsv
IdleWriter ==
    [pc |-> "idle", csvPlayer |-> [Name |-> ""], roster |-> <<>>,
     loadedAt |-> 0, savedAt |-> 0]

\* no page is inside a call: calls run one at a time
NoWriters == [w \in Writers |-> IdleWriter]

----------------------------------------------------------------------------
(* Roster operations *)

\* getRoster()
GetRoster ==
    /\ CanCall
    /\ rosterSlot' = GetRosterStored(rosterSlot)
    /\ call' = Called("getRoster", GetRosterResult(rosterSlot),
                      IF GetRosterChanged(rosterSlot) THEN {"roster"} ELSE {}, <<>>)
    /\ UNCHANGED <<settingsSlot, targetsSlot, pricesSlot, writers>>

\* as CsvEntry, the contract defaults applied to an existing entry too
CsvEntry_ResetsContract(roster, csvPlayer) ==
    LET typeRaw == ToLowerCase(Trim(StrField(csvPlayer, "Type", "")))
        type == IF typeRaw = "pit" THEN "pit" ELSE "hit"
        name == Trim(StrField(csvPlayer, "Name", ""))
    IN  normalizeRosterPlayer(
            [id |-> getPlayerKey(type, name), name |-> name, type |-> type,
             team |-> Trim(StrField(csvPlayer, "Team", "")),
             pos |-> Trim(StrField(csvPlayer, "POS", "")),
             underContract |-> FALSE, contractYear |-> Num(1),
             contractTotal |-> Num(1), price |-> Num(0)])

\* the entry addToRosterFromCsv stores and returns, given the roster it read
CsvEntry(roster, csvPlayer) ==
    LET typeRaw == ToLowerCase(Trim(StrField(csvPlayer, "Type", "")))
        type == IF typeRaw = "pit" THEN "pit" ELSE "hit"
        name == Trim(StrField(csvPlayer, "Name", ""))
        team == Trim(StrField(csvPlayer, "Team", ""))
        pos == Trim(StrField(csvPlayer, "POS", ""))
        id == getPlayerKey(type, name)
        at == FindIndex(roster, id)
        existing == roster[at]
    IN  IF at # 0
        THEN normalizeRosterPlayer(
                 Spread(existing,
                        [name |-> OrStr(existing.name, name),
                         team |-> OrStr(existing.team, team),
                         pos |-> OrStr(existing.pos, pos),
                         type |-> OrStr(existing.type, type)]))
        ELSE normalizeRosterPlayer(
                 [id |-> id, name |-> name, type |-> type, team |-> team, pos |-> pos,
                  underContract |-> FALSE, contractYear |-> Num(1),
                  contractTotal |-> Num(1), price |-> Num(0)])

\* the canonical id addToRosterFromCsv computes for a CSV record
CsvId(csvPlayer) ==
    LET typeRaw == ToLowerCase(Trim(StrField(csvPlayer, "Type", "")))
    IN  getPlayerKey(IF typeRaw = "pit" THEN "pit" ELSE "hit",
                     Trim(StrField(csvPlayer, "Name", "")))

\* the list addToRosterFromCsv saves, given the roster it read
CsvRoster(roster, csvPlayer) ==
    The({IF FindIndex(roster, id) # 0
         THEN [i \in 1..Len(roster) |-> IF roster[i].id = id THEN entry ELSE roster[i]]
         ELSE <<entry>> \o roster
         : id \in {CsvId(csvPlayer)}, entry \in {CsvEntry(roster, csvPlayer)}})

\* addToRosterFromCsv(csvPlayer)
AddToRosterFromCsv(csvPlayer) ==
    \E roster \in {GetRosterResult(rosterSlot)} :
        /\ CanCall
        /\ FindIndex(roster, CsvId(csvPlayer)) = 0 => Len(roster) < MaxRoster
        /\ rosterSlot' = CsvRoster(roster, csvPlayer)
        /\ call' = Called("addToRosterFromCsv", CsvEntry(roster, csvPlayer),
                          {"roster"}, <<>>)
        /\ UNCHANGED <<settingsSlot, targetsSlot, pricesSlot, writers>>

\* as UpdateRosterPlayer, the patch spread over the id
UpdateRosterPlayer_PatchOverId(id, patch) ==
    \E roster \in {GetRosterResult(rosterSlot)} :
        LET idx == FindIndex(roster, id)
            updated ==
                normalizeRosterPlayer(Spread(Spread(roster[idx], [id |-> id]), patch))
        IN  /\ CanCall
            /\ IF idx = 0
               THEN /\ rosterSlot' = GetRosterStored(rosterSlot)
                    /\ call' = Called("updateRosterPlayer", Null,
                                      IF GetRosterChanged(rosterSlot)
                                      THEN {"roster"} ELSE {},
                                      <<>>)
               ELSE /\ rosterSlot' = [roster EXCEPT ![idx] = updated]
                    /\ call' = Called("updateRosterPlayer", updated, {"roster"}, <<>>)
            /\ UNCHANGED <<settingsSlot, targetsSlot, pricesSlot, writers>>

\* updateRosterPlayer(id, patch)
UpdateRosterPlayer(id, patch) ==
    \E roster \in {GetRosterResult(rosterSlot)} :
        LET idx == FindIndex(roster, id)
            updated ==
                normalizeRosterPlayer(Spread(Spread(roster[idx], patch), [id |-> id]))
        IN  /\ CanCall
            /\ IF idx = 0
               THEN /\ rosterSlot' = GetRosterStored(rosterSlot)
                    /\ call' = Called("updateRosterPlayer", Null,
                                      IF GetRosterChanged(rosterSlot)
                                      THEN {"roster"} ELSE {},
                                      <<>>)
               ELSE /\ rosterSlot' = [roster EXCEPT ![idx] = updated]
                    /\ call' = Called("updateRosterPlayer", updated, {"roster"}, <<>>)
            /\ UNCHANGED <<settingsSlot, targetsSlot, pricesSlot, writers>>

\* setRoster(next)
SetRoster(next) ==
    /\ CanCall
    /\ rosterSlot' = next
    /\ call' = Called("setRoster", Null, {"roster"}, <<>>)
    /\ UNCHANGED <<settingsSlot, targetsSlot, pricesSlot, writers>>

\* roster.filter((r) => r.id !== id)
FilterOutId(seq, id) == SelectSeq(seq, LAMBDA r : StrField(r, "id", "undefined") # id)

\* removeRosterPlayer(id)
RemoveRosterPlayer(id) ==
    \E roster \in {GetRosterResult(rosterSlot)} :
        \E next \in {FilterOutId(roster, id)} :
            /\ CanCall
            /\ rosterSlot' = next
            /\ call' = Called("removeRosterPlayer", Len(next) # Len(roster),
                              {"roster"}, <<>>)
            /\ UNCHANGED <<settingsSlot, targetsSlot, pricesSlot, writers>>

----------------------------------------------------------------------------
(* Settings operations *)

\* getSettings()
GetSettings ==
    /\ CanCall
    /\ call' = Called("getSettings", GetSettingsResult(settingsSlot), {}, <<>>)
    /\ UNCHANGED <<settingsSlot, rosterSlot, targetsSlot, pricesSlot, writers>>

\* setSettings(next)
SetSettings(next) ==
    /\ CanCall
    /\ settingsSlot' = SetSettingsStored(settingsSlot, next)
    /\ call' = Called("setSettings", Null, {"settings"}, <<>>)
    /\ UNCHANGED <<rosterSlot, targetsSlot, pricesSlot, writers>>

\* setCategoryWeights(nextWeights), with now the value of Date.now()
SetCategoryWeights(nextWeights, now) ==
    \E s \in {GetSettingsResult(settingsSlot)},
       normalized \in {SetCategoryWeightsResult(settingsSlot, nextWeights)} :
        /\ CanCall
        /\ settingsSlot' =
               JsonSettings(Spread(s, [category_weights |-> normalized,
                                       category_weights_updated_at |-> Num(now)]))
        /\ call' = Called("setCategoryWeights", normalized, {"settings"}, <<>>)
        /\ UNCHANGED <<rosterSlot, targetsSlot, pricesSlot, writers>>

----------------------------------------------------------------------------
(* Budget reconciler *)

RECURSIVE SumSeq(_, _)
\* seq.reduce((sum, x) => sum + term(x), 0)
SumSeq(term(_), seq) ==
    IF seq = <<>> THEN 0 ELSE term(Head(seq)) + SumSeq(term, Tail(seq))

\* as ContractSpent, the underContract test forgotten
ContractSpent_AllPrices(roster) ==
    LET term(p) == Max(0, toInt(Coalesce(p, "price", Num(0)), 0))
    IN  SumSeq(term, roster)

\* contractSpent of recalcBudgetRemaining
ContractSpent(roster) ==
    LET term(p) == IF p.underContract
                   THEN Max(0, toInt(Coalesce(p, "price", Num(0)), 0))
                   ELSE 0
    IN  SumSeq(term, roster)

\* keeperKeys of recalcBudgetRemaining
KeeperKeys(roster) ==
    {getPlayerKey(roster[i].type, roster[i].name) :
        i \in {j \in 1..Len(roster) : roster[j].underContract}}

\* String(t.player_key || "").trim()
TargetKey(t) == Trim(StrField(t, "player_key", ""))

\* Math.max(0, toInt(t.plan ?? 0, 0))
TargetPlan(t) == Max(0, toInt(Coalesce(t, "plan", Num(0)), 0))

\* as PlannedSpent, the keeper test forgotten
PlannedSpent_CountKeepers(roster, targets) ==
    LET term(t) == IF TargetPlan(t) <= 0 THEN 0 ELSE TargetPlan(t)
    IN  SumSeq(term, targets)

\* plannedSpent of recalcBudgetRemaining
PlannedSpent(roster, targets) ==
    The({LET term(t) == IF TargetPlan(t) <= 0 THEN 0
                        ELSE IF TargetKey(t) # "" /\ TargetKey(t) \in keeperKeys THEN 0
                        ELSE TargetPlan(t)
         IN  SumSeq(term, targets) : keeperKeys \in {KeeperKeys(roster)}})

\* as RecalcResult, remaining not floored at 0
RecalcResult_NoFloor(slot, roster, targets) ==
    The({[spent |-> spent,
          remaining |-> budgetTotal - spent,
          budgetTotal |-> budgetTotal]
         : spent \in {ContractSpent(roster) + PlannedSpent(roster, targets)},
           budgetTotal \in {Max(0, toInt(Coalesce(GetSettingsResult(slot),
                                                  "budget_total", Num(0)), 0))}})

\* the value recalcBudgetRemaining returns, from what it reads
RecalcResult(slot, roster, targets) ==
    The({[spent |-> spent,
          remaining |-> Max(0, budgetTotal - spent),
          budgetTotal |-> budgetTotal]
         : spent \in {ContractSpent(roster) + PlannedSpent(roster, targets)},
           budgetTotal \in {Max(0, toInt(Coalesce(GetSettingsResult(slot),
                                                  "budget_total", Num(0)), 0))}})

\* as RecalcStored, the computed remaining left out of the saved document
RecalcStored_KeepsRemaining(slot, result) ==
    SetSettingsStored(slot, GetSettingsResult(slot))

\* as RecalcStored, the document replaced by the defaults with the computed
\* remaining instead of merged into what getSettings returns
RecalcStored_Replaces(slot, result) ==
    SetSettingsStored(Absent, [budget_remaining |-> Num(result.remaining)])

\* the settings document recalcBudgetRemaining saves, result being what it
\* computed
RecalcStored(slot, result) ==
    LET settings == GetSettingsResult(slot)
        nextSettings == Spread(settings, [budget_remaining |-> Num(result.remaining)])
    IN  SetSettingsStored(slot, nextSettings)

\* as RecalcEvents, nothing recorded for a dispatch that failed
RecalcEvents_DropsUndelivered(result, delivered) ==
    IF delivered
    THEN <<[type |-> "hag:budget-updated", detail |-> result, delivered |-> delivered]>>
    ELSE <<>>

\* the notifications one recalcBudgetRemaining dispatches; delivered is
\* whether window.dispatchEvent went through
RecalcEvents(result, delivered) ==
    <<[type |-> "hag:budget-updated", detail |-> result, delivered |-> delivered]>>

\* the notifications as their listeners meet them: window.dispatchEvent runs
\* the listeners before it returns, settings being the document persisted at
\* that moment
Dispatched(events, settings) ==
    [i \in 1..Len(events) |-> Spread(events[i], [settings |-> settings])]

RECURSIVE LivePriceSum(_)
\* the sum of the prices in a live-price map
LivePriceSum(map) ==
    IF DOMAIN map = {} THEN 0
    ELSE LET key == CHOOSE k \in DOMAIN map : TRUE
         IN  map[key].n + LivePriceSum(Delete(map, key))

\* as Recalc, the live prices counted as money spent
Recalc_CountsLivePrices(op, ret, wrote, targets, delivered) ==
    /\ CanCall
    /\ \E roster \in {GetRosterResult(rosterSlot)},
          changed \in {GetRosterChanged(rosterSlot)},
          live \in {LivePriceSum(pricesSlot)} :
          \E r \in {RecalcResult(settingsSlot, roster, targets)} :
              \E result \in {[spent |-> r.spent + live,
                               remaining |-> Max(0, r.budgetTotal - r.spent - live),
                               budgetTotal |-> r.budgetTotal]} :
                  \E stored \in {RecalcStored(settingsSlot, result)} :
                      /\ rosterSlot' = (IF changed THEN roster ELSE rosterSlot)
                      /\ settingsSlot' = stored
                      /\ call' = Called(op,
                                        IF op = "recalcBudgetRemaining"
                                        THEN result ELSE ret,
                                        wrote \cup {"settings"} \cup
                                            (IF changed THEN {"roster"} ELSE {}),
                                        Dispatched(RecalcEvents(result, delivered),
                                                   stored))
    /\ UNCHANGED <<pricesSlot, writers>>

\* as Recalc, the notification dispatched before the settings are saved
Recalc_DispatchesFirst(op, ret, wrote, targets, delivered) ==
    /\ CanCall
    /\ \E roster \in {GetRosterResult(rosterSlot)},
          changed \in {GetRosterChanged(rosterSlot)} :
          \E result \in {RecalcResult(settingsSlot, roster, targets)} :
              \E stored \in {RecalcStored(settingsSlot, result)} :
                  /\ rosterSlot' = (IF changed THEN roster ELSE rosterSlot)
                  /\ settingsSlot' = stored
                  /\ call' = Called(op,
                                    IF op = "recalcBudgetRemaining" THEN result ELSE ret,
                                    wrote \cup {"settings"} \cup
                                        (IF changed THEN {"roster"} ELSE {}),
                                    Dispatched(RecalcEvents(result, delivered), settingsSlot))
    /\ UNCHANGED <<pricesSlot, writers>>

\* recalcBudgetRemaining() run on the stored targets, as the last step of the
\* call op that returns ret (its own result when it is the call) and has
\* written the slots wrote
Recalc(op, ret, wrote, targets, delivered) ==
    /\ CanCall
    /\ \E roster \in {GetRosterResult(rosterSlot)},
          changed \in {GetRosterChanged(rosterSlot)} :
          \E result \in {RecalcResult(settingsSlot, roster, targets)} :
              \E stored \in {RecalcStored(settingsSlot, result)} :
                  /\ rosterSlot' = (IF changed THEN roster ELSE rosterSlot)
                  /\ settingsSlot' = stored
                  /\ call' = Called(op,
                                    IF op = "recalcBudgetRemaining" THEN result ELSE ret,
                                    wrote \cup {"settings"} \cup
                                        (IF changed THEN {"roster"} ELSE {}),
                                    Dispatched(RecalcEvents(result, delivered), stored))
    /\ UNCHANGED <<pricesSlot, writers>>

\* recalcBudgetRemaining()
RecalcBudgetRemaining(delivered) ==
    /\ Recalc("recalcBudgetRemaining", Null, {}, targetsSlot, delivered)
    /\ UNCHANGED targetsSlot

----------------------------------------------------------------------------
(* Auction targets *)

\* target.f != null && target.f !== "" ? Number(target.f) : undefined, as the
\* object holding the field f or nothing
OptNumber(target, f) ==
    IF f \in DOMAIN target /\ target[f] # Null /\ target[f] # Empty
    THEN [g \in {f} |-> ToNumber(target[f])]
    ELSE EmptyObj

\* the record addAuctionTarget builds for target under the generated id
CreatedTarget(target, id) ==
    LET name == Trim(StrField(target, "name", ""))
        type == ToLowerCase(Trim(StrField(target, "type", "hit")))
        core == [name |-> name,
                 type |-> type,
                 pos |-> StrField(target, "pos", ""),
                 tier |-> StrField(target, "tier", "B"),
                 plan |-> ToNumber(Coalesce(target, "plan", Num(0))),
                 max |-> ToNumber(Coalesce(target, "max", Num(0))),
                 enforce |-> ToNumber(Coalesce(target, "enforce", Num(0))),
                 notes |-> StrField(target, "notes", ""),
                 player_key |-> OrStr(StrField(target, "player_key", ""),
                                      getPlayerKey(type, name))]
        base == Spread(Spread([id |-> id], IF IsObject(target) THEN target ELSE EmptyObj),
                       core)
        unset == Delete(Delete(Delete(Delete(base, "val"), "shadow"), "adj"), "delta")
    IN  Spread(Spread(Spread(Spread(unset, OptNumber(target, "val")),
                             OptNumber(target, "shadow")),
                      OptNumber(target, "adj")),
               OptNumber(target, "delta"))

TargetScalars == {"plan", "max", "enforce", "val", "shadow", "adj", "delta"}

\* JSON.parse(JSON.stringify(t)) of one target
JsonTarget(target) ==
    The({[f \in DOMAIN t |-> IF f \in TargetScalars THEN JsonScalar(t[f]) ELSE t[f]]
         : t \in {target}})

\* what loadAuctionTargets reads back after saveAuctionTargets(list)
JsonTargets(list) ==
    The({[i \in 1..Len(targets) |-> JsonTarget(targets[i])] : targets \in {list}})

\* as PatchedNumber, a field the patch leaves out reset to 0
PatchedNumber_ZeroWhenAbsent(cur, patch, f) ==
    IF f \in DOMAIN patch THEN [g \in {f} |-> ToNumber(patch[f])]
    ELSE [g \in {f} |-> Num(0)]

\* patch?.f !== undefined ? Number(patch.f) : cur.f, as the object holding f
\* or nothing
PatchedNumber(cur, patch, f) ==
    IF f \in DOMAIN patch THEN [g \in {f} |-> ToNumber(patch[f])]
    ELSE IF f \in DOMAIN cur THEN [g \in {f} |-> cur[f]]
    ELSE EmptyObj

\* the record updateAuctionTarget puts in place of cur
PatchedTarget(cur, patch) ==
    LET spread == Delete(Delete(Delete(Spread(cur, patch), "plan"), "max"), "enforce")
    IN  Spread(Spread(Spread(spread, PatchedNumber(cur, patch, "plan")),
                      PatchedNumber(cur, patch, "max")),
               PatchedNumber(cur, patch, "enforce"))

\* the ids of the targets in list
TargetIdsOf(list) == {StrField(list[i], "id", "undefined") : i \in 1..Len(list)}

\* as SaveTargetsAndRecalc, the budget recomputed before the list is saved
SaveTargetsAndRecalc_RecalcFirst(op, ret, list, delivered) ==
    /\ targetsSlot' = JsonTargets(list)
    /\ Recalc(op, ret, {"targets"}, targetsSlot, delivered)

\* saveAuctionTargets(list); recalcBudgetRemaining(): the end of every
\* mutator of the target list
SaveTargetsAndRecalc(op, ret, list, delivered) ==
    \E saved \in {JsonTargets(list)} :
        /\ targetsSlot' = saved
        /\ Recalc(op, ret, {"targets"}, saved, delivered)

\* addAuctionTarget(target), id being what crypto.randomUUID() returns
AddAuctionTarget(target, id, delivered) ==
    /\ Len(targetsSlot) < MaxTargets
    /\ id \notin TargetIdsOf(targetsSlot)
    /\ \E created \in {CreatedTarget(target, id)} :
          SaveTargetsAndRecalc("addAuctionTarget", created,
                               <<created>> \o targetsSlot, delivered)

\* as UpdateAuctionTarget, the list saved and the budget recomputed also when
\* the id is not found
UpdateAuctionTarget_AlwaysSaves(id, patch, delivered) ==
    LET idx == FindIndex(targetsSlot, id)
    IN  SaveTargetsAndRecalc(
            "updateAuctionTarget", Null,
            IF idx = 0 THEN targetsSlot
            ELSE [targetsSlot EXCEPT ![idx] = PatchedTarget(targetsSlot[idx], patch)],
            delivered)

\* updateAuctionTarget(id, patch)
UpdateAuctionTarget(id, patch, delivered) ==
    LET idx == FindIndex(targetsSlot, id)
    IN  IF idx = 0
        THEN /\ CanCall
             /\ call' = Called("updateAuctionTarget", Null, {}, <<>>)
             /\ UNCHANGED <<settingsSlot, rosterSlot, targetsSlot, pricesSlot, writers>>
        ELSE SaveTargetsAndRecalc(
                 "updateAuctionTarget", Null,
                 [targetsSlot EXCEPT ![idx] = PatchedTarget(targetsSlot[idx], patch)],
                 delivered)

\* removeAuctionTarget(id)
RemoveAuctionTarget(id, delivered) ==
    SaveTargetsAndRecalc("removeAuctionTarget", Null, FilterOutId(targetsSlot, id),
                         delivered)

\* clearAuctionTargets()
ClearAuctionTargets(delivered) ==
    SaveTargetsAndRecalc("clearAuctionTargets", Null, <<>>, delivered)

----------------------------------------------------------------------------
(* Live prices *)

\* the map getLivePrices returns for the stored map
GetLivePricesResult(slot) == slot

\* the map setLivePrice(key, price) saves, key being the trimmed key
SetLivePriceStored(slot, key, price) ==
    The({IF ~IsFinite(n) \/ ~IsPositive(n)
         THEN Delete(map, key)
         ELSE Spread(map, [g \in {key} |-> Num(Round(n))])
         : map \in {GetLivePricesResult(slot)}, n \in {ToNumber(price)}})

\* getLivePrices()
GetLivePrices ==
    /\ CanCall
    /\ call' = Called("getLivePrices", GetLivePricesResult(pricesSlot), {}, <<>>)
    /\ UNCHANGED <<settingsSlot, rosterSlot, targetsSlot, pricesSlot, writers>>

\* setLivePrice(playerKey, price)
SetLivePrice(playerKey, price) ==
    \E key \in {Trim(playerKey)} :
        /\ CanCall
        /\ IF key = ""
           THEN /\ call' = Called("setLivePrice", Null, {}, <<>>)
                /\ UNCHANGED <<pricesSlot, writers>>
           ELSE /\ pricesSlot' = SetLivePriceStored(pricesSlot, key, price)
                /\ call' = Called("setLivePrice", Null, {"prices"}, <<>>)
        /\ UNCHANGED <<settingsSlot, rosterSlot, targetsSlot, writers>>

\* clearLivePrices()
ClearLivePrices ==
    /\ CanCall
    /\ pricesSlot' = EmptyObj
    /\ call' = Called("clearLivePrices", Null, {"prices"}, <<>>)
    /\ UNCHANGED <<settingsSlot, rosterSlot, targetsSlot, writers>>

----------------------------------------------------------------------------
(* The budget specification: roster, targets and settings edited by one    *)
(* caller, one call at a time.                                             *)

\* a roster written by an older build: the id is not the canonical key
LegacyKeeper ==
    [id |-> "hit|A", name |-> "A", type |-> "hit", underContract |-> TRUE,
     contractYear |-> Num(1), contractTotal |-> Num(1), price |-> Num(40)]

BudgetCsv == {[Name |-> "A", Type |-> "hit"], [Name |-> "B", Type |-> "Pit "]}

BudgetRosterIds == {"hit|a", "pit|b"}

BudgetRosterPatches ==
    {[underContract |-> TRUE, price |-> Num(40)], [underContract |-> FALSE]}

BudgetTargets ==
    {[name |-> " a ", type |-> "hit", plan |-> NumStr(30)],
     [name |-> "B", plan |-> Num(25)]}

\* the values crypto.randomUUID() may return
TargetIds == {"t1", "t2", "t3"}

BudgetTargetPatches == {[plan |-> Frac(2)]}

BudgetSettings == {[budget_total |-> Num(50)]}

Init ==
    /\ settingsSlot = Absent
    /\ rosterSlot \in {<<>>, <<LegacyKeeper>>}
    /\ targetsSlot = <<>>
    /\ pricesSlot = EmptyObj
    /\ writers = NoWriters
    /\ call = NoCall

\* the page runs in a browser window: the dispatch goes through
Dispatch == {TRUE}

Next ==
    \/ \E csvPlayer \in BudgetCsv : AddToRosterFromCsv(csvPlayer)
    \/ \E id \in BudgetRosterIds, patch \in BudgetRosterPatches :
            UpdateRosterPlayer(id, patch)
    \/ \E id \in BudgetRosterIds : RemoveRosterPlayer(id)
    \/ \E target \in BudgetTargets, id \in TargetIds, delivered \in Dispatch :
            AddAuctionTarget(target, id, delivered)
    \/ \E id \in TargetIds, patch \in BudgetTargetPatches, delivered \in Dispatch :
            UpdateAuctionTarget(id, patch, delivered)
    \/ \E id \in TargetIds, delivered \in Dispatch : RemoveAuctionTarget(id, delivered)
    \/ \E delivered \in Dispatch : ClearAuctionTargets(delivered)
    \/ \E next \in BudgetSettings : SetSettings(next)
    \/ \E delivered \in Dispatch : RecalcBudgetRemaining(delivered)

Spec == Init /\ [][Next]_vars

----------------------------------------------------------------------------
(* Budget claims *)

\* the roster recalcBudgetRemaining reads in this state
Roster == GetRosterResult(rosterSlot)

\* the settings getSettings returns in this state
Settings == GetSettingsResult(settingsSlot)

\* what recalcBudgetRemaining returns when called in this state
Budget == RecalcResult(settingsSlot, Roster, targetsSlot)

\* the calls that run recalcBudgetRemaining as their last step
TargetMutators ==
    {"addAuctionTarget", "updateAuctionTarget", "removeAuctionTarget", "clearAuctionTargets"}

RanRecalc == call.events # <<>>

\* the canonical keys of the under-contract roster entries
KeeperKeysOf(roster) ==
    {getPlayerKey(roster[i].type, roster[i].name) :
        i \in {j \in 1..Len(roster) : roster[j].underContract}}

\* t is a target of a player who is an under-contract roster entry
IsKeeperTarget(t) == Trim(StrField(t, "player_key", "")) \in KeeperKeysOf(Roster)

\* the sum of the roster prices of the under-contract entries
KeeperPriceSum ==
    LET price(p) == IF p.underContract THEN p.price.n ELSE 0
    IN  SumSeq(price, Roster)

\* the whole-dollar plan of a target: its plan truncated toward zero, 0 when
\* the plan is no finite number or is negative
WholePlan(t) ==
    IF "plan" \in DOMAIN t /\ t.plan.k \in {"num", "frac"} /\ t.plan.n > 0
    THEN t.plan.n ELSE 0

\* twice the plan of a target whose plan is a number > 0, else 0
TwicePositivePlan(t) ==
    IF "plan" \in DOMAIN t /\ t.plan.k \in {"num", "frac"} /\ Twice(t.plan) > 0
    THEN Twice(t.plan) ELSE 0

\* C1: a player who is both an under-contract roster entry and an auction
\* target contributes only the roster price to the spent value that
\* recalcBudgetRemaining returns: spent is the sum of the keepers' prices plus
\* the plans of the targets of other players, the plans of the keepers'
\* targets are not added on top.
C1_KeeperPlanNotAdded ==
    LET others == SelectSeq(targetsSlot, LAMBDA t : ~IsKeeperTarget(t))
    IN  /\ Budget.spent = KeeperPriceSum + SumSeq(WholePlan, others)
        /\ RanRecalc => call.events[1].detail.spent = Budget.spent

\* recalcBudgetRemaining has returned 40 for a keeper of price 40 who is also
\* a target with plan 30
C1_Witness ==
    /\ call.op = "recalcBudgetRemaining"
    /\ call.ret.spent = 40
    /\ \E i \in 1..Len(Roster) : Roster[i].underContract /\ Roster[i].price = Num(40)
    /\ \E j \in 1..Len(targetsSlot) :
            /\ IsKeeperTarget(targetsSlot[j])
            /\ targetsSlot[j].plan = Num(30)

\* the budget_remaining that is consistent with the roster, the targets and
\* budget_total of this state
ConsistentRemaining ==
    Max(0, Settings.budget_total.n - (ContractSpent(Roster) + PlannedSpent(Roster, targetsSlot)))

\* the step has changed the price or underContract of a roster entry, or has
\* removed an under-contract entry
ContractEdited ==
    LET before == GetRosterResult(rosterSlot)
        after == rosterSlot'
    IN  \E i \in 1..Len(before) :
            \/ /\ FindIndex(after, before[i].id) = 0
               /\ before[i].underContract
            \/ /\ FindIndex(after, before[i].id) # 0
               /\ LET e == after[FindIndex(after, before[i].id)]
                  IN  e.price # before[i].price \/ e.underContract # before[i].underContract

\* C2 as stated: when updateRosterPlayer or removeRosterPlayer has edited a
\* contract, the call returns with budget_remaining reconciled and a budget
\* notification emitted.
C2_EditReconciles ==
    [][(call'.op \in {"updateRosterPlayer", "removeRosterPlayer"} /\ ContractEdited)
          => /\ GetSettingsResult(settingsSlot').budget_remaining = Num(ConsistentRemaining')
             /\ call'.events # <<>>]_vars

\* C2 amended: updateRosterPlayer and removeRosterPlayer write the roster
\* only: the settings slot keeps its content and no notification is emitted;
\* budget_remaining is reconciled with the edited roster by the next call
\* that runs recalcBudgetRemaining, which emits the notification.
C2_EditLeavesBudget ==
    /\ [](RanRecalc => /\ Settings.budget_remaining = Num(ConsistentRemaining)
                       /\ "settings" \in call.wrote)
    /\ [][call'.op \in {"updateRosterPlayer", "removeRosterPlayer"}
            => /\ settingsSlot' = settingsSlot
               /\ call'.events = <<>>
               /\ "settings" \notin call'.wrote]_vars

\* updateRosterPlayer has put a player under contract and the persisted
\* budget_remaining is not the one consistent with the roster
C2_Witness ==
    /\ call.op = "updateRosterPlayer"
    /\ call.ret # Null
    /\ call.ret.underContract /\ call.ret.price = Num(40)
    /\ Settings.budget_remaining # Num(ConsistentRemaining)

\* C3: after addAuctionTarget, updateAuctionTarget (id found),
\* removeAuctionTarget and clearAuctionTargets the persisted budget_remaining
\* is max(0, budget_total - (contractSpent + plannedSpent)) over the roster
\* and the target list as they are after the mutation.
C3_TargetMutationReconciles ==
    (call.op \in TargetMutators /\ "targets" \in call.wrote)
        => /\ settingsSlot # Absent
           /\ settingsSlot.budget_remaining = Num(ConsistentRemaining)

\* a target has been removed from a list of two, next to a keeper: 300 - 40
\* - 25 is persisted
C3_Witness ==
    /\ call.op = "removeAuctionTarget"
    /\ Len(targetsSlot) = 1
    /\ KeeperPriceSum = 40
    /\ settingsSlot # Absent
    /\ settingsSlot.budget_remaining = Num(235)

\* budget_total values a caller may have stored
OddTotals == {Num(-5), Num(0), Frac(3), NumStr(7), Str, Null, NaN}

\* C4: recalcBudgetRemaining returns remaining >= 0 and persists
\* budget_remaining >= 0, whatever budget_total, roster and targets are, also
\* when spent > budget_total.
C4_RemainingNotNegative ==
    /\ Budget.remaining >= 0
    /\ \A total \in OddTotals :
          RecalcResult(Spread(Settings, [budget_total |-> total]),
                       Roster, targetsSlot).remaining >= 0
    /\ RanRecalc
          => /\ call.events[1].detail.remaining >= 0
             /\ settingsSlot.budget_remaining.k = "num"
             /\ settingsSlot.budget_remaining.n >= 0
    /\ call.op = "recalcBudgetRemaining" => call.ret.remaining >= 0

\* recalcBudgetRemaining has returned remaining 0 for spent 65 > budget_total 50
C4_Witness ==
    /\ call.op = "recalcBudgetRemaining"
    /\ call.ret.budgetTotal = 50
    /\ call.ret.spent = 65
    /\ call.ret.remaining = 0
    /\ settingsSlot.budget_remaining = Num(0)

\* C5 as stated: spent is the sum of the under-contract prices plus the sum
\* of plan over the targets with plan > 0 that are not keyed to a keeper
\* (compared doubled, so that a plan of n + 1/2 is an integer).
C5_SpentIsSumOfPlans ==
    LET others == SelectSeq(targetsSlot, LAMBDA t : ~IsKeeperTarget(t))
    IN  call.op = "recalcBudgetRemaining"
            => 2 * call.ret.spent = 2 * KeeperPriceSum + SumSeq(TwicePositivePlan, others)

\* C5 amended: spent is the sum of the under-contract prices plus the sum of
\* the plans, truncated to whole dollars, of the targets not keyed to a
\* keeper; remaining = max(0, budget_total - spent); budgetTotal = budget_total.
C5_SpentIsSumOfWholePlans ==
    LET others == SelectSeq(targetsSlot, LAMBDA t : ~IsKeeperTarget(t))
        spent == KeeperPriceSum + SumSeq(WholePlan, others)
    IN  call.op = "recalcBudgetRemaining"
            => /\ call.ret.spent = spent
               /\ call.ret.remaining = Max(0, Settings.budget_total.n - spent)
               /\ Num(call.ret.budgetTotal) = Settings.budget_total

\* the scenario: budget_total 300, A under contract at 40, targets A (plan
\* 30, keyed to A) and B (plan 25) give spent 65 and remaining 235
C5_Witness ==
    /\ call.op = "recalcBudgetRemaining"
    /\ call.ret = [spent |-> 65, remaining |-> 235, budgetTotal |-> 300]
    /\ Len(Roster) = 1 /\ Roster[1].underContract /\ Roster[1].price = Num(40)
    /\ Len(targetsSlot) = 2
    /\ \E j \in 1..2 : IsKeeperTarget(targetsSlot[j]) /\ targetsSlot[j].plan = Num(30)
    /\ \E j \in 1..2 : ~IsKeeperTarget(targetsSlot[j]) /\ targetsSlot[j].plan = Num(25)

----------------------------------------------------------------------------
(* The roster specification: any roster an older build may have stored,    *)
(* read and edited by one caller.                                          *)

RawEntries ==
    {[id |-> "hit|A", name |-> "A", type |-> "hit", underContract |-> TRUE,
      contractYear |-> Num(2), contractTotal |-> Num(3), price |-> Num(5)],
     [id |-> "hit|a", name |-> " a ", type |-> "hit", team |-> "NYY",
      underContract |-> FALSE, contractYear |-> Num(12), contractTotal |-> Num(11),
      price |-> Str],
     [id |-> "hit|a", name |-> "a", type |-> "hit", pos |-> "OF"],
     [id |-> "hit|a", name |-> "A", type |-> "hit", underContract |-> TRUE,
      contractYear |-> Num(2), contractTotal |-> Num(4), price |-> Num(30)],
     [id |-> "x", name |-> "B", type |-> "PIT", underContract |-> TRUE,
      contractYear |-> Null, contractTotal |-> NumStr(4), price |-> Frac(2)]}

RawRosters == UNION {[1..n -> RawEntries] : n \in 0..MaxRaw}

RosterCsv ==
    {[Name |-> " a ", Type |-> "hit", Team |-> "NYY", POS |-> "OF"],
     [Name |-> "B", Type |-> "Pit ", POS |-> "SP"]}

RosterIds == {"hit|a", "hit|b", "pit|b"}

RosterPatches ==
    {[underContract |-> TRUE, price |-> Num(7), contractYear |-> Num(2),
      contractTotal |-> Num(3)],
     [contractYear |-> Num(5), contractTotal |-> Num(3), price |-> Num(-4)],
     [id |-> "zzz", name |-> "B"]}

InitRoster ==
    /\ settingsSlot = Absent
    /\ rosterSlot \in RawRosters
    /\ targetsSlot = <<>>
    /\ pricesSlot = EmptyObj
    /\ writers = NoWriters
    /\ call = NoCall

NextRoster ==
    \/ GetRoster
    \/ \E csvPlayer \in RosterCsv : AddToRosterFromCsv(csvPlayer)
    \/ \E id \in RosterIds, patch \in RosterPatches : UpdateRosterPlayer(id, patch)
    \/ \E id \in RosterIds : RemoveRosterPlayer(id)

SpecRoster == InitRoster /\ [][NextRoster]_vars

----------------------------------------------------------------------------
(* Roster claims *)

SameContract(e, f) ==
    /\ e.underContract = f.underContract
    /\ e.contractYear = f.contractYear
    /\ e.contractTotal = f.contractTotal
    /\ e.price = f.price

\* C6: addToRosterFromCsv is an idempotent upsert.  Called with a record
\* whose canonical id is in the roster, it leaves the number of entries and
\* that entry's underContract, contractYear, contractTotal and price as they
\* were; called again with the same record after it created the only entry,
\* it leaves exactly that one entry.
C6_UpsertIdempotent ==
    [][/\ call'.op = "addToRosterFromCsv"
          => LET before == GetRosterResult(rosterSlot)
                 at == FindIndex(before, call'.ret.id)
             IN  at # 0
                    => /\ Len(rosterSlot') = Len(before)
                       /\ SameContract(call'.ret, before[at])
                       /\ SameContract(rosterSlot'[FindIndex(rosterSlot', call'.ret.id)],
                                       before[at])
       /\ \A csvPlayer \in RosterCsv :
            (/\ call.op = "addToRosterFromCsv"
             /\ call.ret = CsvEntry(<<>>, csvPlayer)
             /\ rosterSlot = <<call.ret>>
             /\ AddToRosterFromCsv(csvPlayer))
                => rosterSlot' = rosterSlot]_vars

\* the third call, addToRosterFromCsv, has found the entry that the first
\* call created and updateRosterPlayer put under contract at price 7
C6_Witness ==
    /\ call.seq = 3
    /\ call.op = "addToRosterFromCsv"
    /\ Len(rosterSlot) = 1
    /\ call.ret.underContract
    /\ call.ret.price = Num(7)
    /\ call.ret.contractTotal = Num(3)

\* C7: the self-heal is idempotent: the getRoster call that follows a
\* getRoster call returns the same list and writes nothing.
C7_SelfHealIdempotent ==
    call.op = "getRoster"
        => /\ GetRosterResult(rosterSlot) = call.ret
           /\ ~GetRosterChanged(rosterSlot)
           /\ GetRosterStored(rosterSlot) = rosterSlot

\* the first getRoster call has merged two stored entries and written the
\* roster back
C7_Witness ==
    /\ call.seq = 1
    /\ call.op = "getRoster"
    /\ "roster" \in call.wrote
    /\ Len(call.ret) = 1

\* the object holding field f of the earlier entry a when that parses to a
\* finite number, else field f of the later entry b (nothing when b has none)
PickFinite(a, b, f) ==
    IF f \in DOMAIN a /\ IsFinite(ToNumber(a[f])) THEN [g \in {f} |-> a[f]]
    ELSE IF f \in DOMAIN b THEN [g \in {f} |-> b[f]]
    ELSE EmptyObj

\* C8 as stated: when getRoster merges two stored entries of one canonical
\* id, the merged underContract is the OR of both, and contractYear,
\* contractTotal and price are (normalized) the earlier entry's stored value
\* when that parses to a finite number, else the later entry's value.
C8_MergeFallsBackToLater ==
    [][(call'.op = "getRoster" /\ Len(rosterSlot) = 2 /\ Len(call'.ret) = 1)
          => LET a == rosterSlot[1]
                 b == rosterSlot[2]
                 merged == call'.ret[1]
                 expected == normalizeRosterPlayer(
                                 Spread(Spread(PickFinite(a, b, "contractYear"),
                                               PickFinite(a, b, "contractTotal")),
                                        PickFinite(a, b, "price")))
             IN  /\ merged.underContract =
                        (normalizeRosterPlayer(a).underContract
                            \/ normalizeRosterPlayer(b).underContract)
                 /\ merged.contractYear = expected.contractYear
                 /\ merged.contractTotal = expected.contractTotal
                 /\ merged.price = expected.price]_vars

ValidContract(e) ==
    /\ e.contractYear.k = "num" /\ e.contractTotal.k = "num" /\ e.price.k = "num"
    /\ 1 <= e.contractYear.n
    /\ e.contractYear.n <= e.contractTotal.n
    /\ e.contractTotal.n <= 10
    /\ e.price.n >= 0

\* C9: every roster entry returned by getRoster, addToRosterFromCsv or
\* updateRosterPlayer has integer contractYear and contractTotal with
\* 1 <= contractYear <= contractTotal <= 10 and an integer price >= 0.
C9_ContractInRange ==
    /\ \A i \in 1..Len(Roster) : ValidContract(Roster[i])
    /\ call.op = "getRoster" => \A i \in 1..Len(call.ret) : ValidContract(call.ret[i])
    /\ call.op = "addToRosterFromCsv" => ValidContract(call.ret)
    /\ (call.op = "updateRosterPlayer" /\ call.ret # Null) => ValidContract(call.ret)

\* updateRosterPlayer has returned an entry patched with contractYear 5,
\* contractTotal 3 and price -4: year 3 of 3, price 0
C9_Witness ==
    /\ call.op = "updateRosterPlayer"
    /\ call.ret # Null
    /\ call.ret.contractYear = Num(3)
    /\ call.ret.contractTotal = Num(3)
    /\ call.ret.price = Num(0)

----------------------------------------------------------------------------
(* The settings specification: the settings document written by callers    *)
(* that pass whatever they like.                                           *)

\* a document saved by an older build: partial weights under the legacy key
LegacySettings ==
    [budget_total |-> Num(300), budget_remaining |-> Num(300),
     category_weights |-> [SBN |-> Num(3), HR |-> Num(2)]]

WeightInputs ==
    {[SB |-> Num(2)],
     [SBN |-> Num(3)],
     [SB |-> Num(6), SBN |-> Num(3)],
     [SB |-> Str, SBN |-> Num(3)],
     [SB |-> Null, SBN |-> NumStr(4)],
     [HR |-> Str, XX |-> Num(9), SBN |-> Num(5)],
     [AVG |-> Frac(1), ERA |-> NaN],
     Null,
     Str}

SettingsInputs ==
    {[category_weights |-> w] : w \in WeightInputs}
        \cup {[budget_total |-> Num(50)], Null}

\* the values Date.now() may return
Times == {1, 2}

InitSettings ==
    /\ settingsSlot \in {Absent, LegacySettings}
    /\ rosterSlot \in {<<>>, <<LegacyKeeper>>}
    /\ targetsSlot = <<>>
    /\ pricesSlot = EmptyObj
    /\ writers = NoWriters
    /\ call = NoCall

NextSettings ==
    \/ \E next \in SettingsInputs : SetSettings(next)
    \/ \E nextWeights \in WeightInputs, now \in Times : SetCategoryWeights(nextWeights, now)
    \/ \E delivered \in BOOLEAN : RecalcBudgetRemaining(delivered)

SpecSettings == InitSettings /\ [][NextSettings]_vars

\* exactly the 14 category keys, each a finite number
WeightsOk(w) ==
    /\ IsObject(w)
    /\ DOMAIN w = WeightKeys
    /\ \A c \in WeightKeys : w[c].k \in {"num", "frac"}

\* C10: after any sequence of setSettings, setCategoryWeights and
\* recalcBudgetRemaining calls, whatever their arguments, the category_weights
\* that getSettings returns and the category_weights of the persisted
\* settings hold exactly the 14 category keys, each a finite number, and no
\* SBN key.
C10_WeightsAlwaysComplete ==
    /\ WeightsOk(Settings.category_weights)
    /\ call.seq >= 1
          => /\ settingsSlot # Absent
             /\ "category_weights" \in DOMAIN settingsSlot
             /\ WeightsOk(settingsSlot.category_weights)
             /\ "SBN" \notin DOMAIN settingsSlot.category_weights
    /\ call.op = "setCategoryWeights" => WeightsOk(call.ret)

\* setSettings has saved weights in which SB comes from the legacy key (SB
\* null, SBN "4") and every other weight is in place
C10_Witness ==
    /\ call.op = "setSettings"
    /\ settingsSlot.category_weights.SB = Num(4)
    /\ settingsSlot.category_weights.HLD = Num(1)

----------------------------------------------------------------------------
(* Settings claims, continued *)

\* the weight inputs that are objects
ObjectWeightInputs == {w \in WeightInputs : IsObject(w)}

\* the SB weight that the value v of an SB or SBN field gives: v as a number
\* when that is finite, else the default
WeightOf(v) == IF IsFinite(ToNumber(v)) THEN ToNumber(v) ELSE DEFAULT_WEIGHTS["SB"]

\* C11: normalizeCategoryWeights copies the legacy SBN value into SB only
\* when the input has no SB value; when the input has both, SB keeps its own
\* value; the result has no SBN key.  Stated of the function on every input
\* and of the weights that setSettings saves through it.
C11_LegacyOnlyWithoutSB ==
    [][\A w \in ObjectWeightInputs :
          LET out == normalizeCategoryWeights(w)
              expected == IF ~IsNullish(w, "SB") THEN WeightOf(w.SB)
                          ELSE IF ~IsNullish(w, "SBN") THEN WeightOf(w.SBN)
                          ELSE DEFAULT_WEIGHTS["SB"]
          IN  /\ "SBN" \notin DOMAIN out
              /\ out.SB = expected
              /\ SetSettings([category_weights |-> w])
                    => /\ settingsSlot'.category_weights.SB = expected
                       /\ "SBN" \notin DOMAIN settingsSlot'.category_weights]_vars

\* setSettings has saved the weights given as SB 6 and SBN 3: SB is 6
C11_Witness ==
    /\ call.op = "setSettings"
    /\ settingsSlot.category_weights.SB = Num(6)
    /\ "SBN" \notin DOMAIN settingsSlot.category_weights

\* the settings specification with the reads of the document among the calls
NextSettingsRead ==
    \/ GetSettings
    \/ NextSettings

SpecSettingsRead == InitSettings /\ [][NextSettingsRead]_vars

\* the fields of the settings document other than the weights
PlainSettingsFields == DOMAIN DefaultSettings \ {"category_weights"}

\* C18 as stated: the document getSettings returns holds, for every field of
\* the settings document, the persisted value or, when the field is not
\* persisted, the documented default.
C18_DefaultsForMissingFields ==
    call.op = "getSettings"
        => /\ \A f \in PlainSettingsFields :
                /\ f \in DOMAIN call.ret
                /\ call.ret[f] = IF settingsSlot # Absent /\ f \in DOMAIN settingsSlot
                                 THEN settingsSlot[f] ELSE DefaultSettings[f]
           /\ "category_weights" \in DOMAIN call.ret
           /\ WeightsOk(call.ret.category_weights)

\* C19: every recalcBudgetRemaining call dispatches one budget-updated
\* notification whose detail is the value the call returns; also when the
\* dispatch fails the call returns that value, has persisted budget_remaining
\* and throws nothing.
C19_NotifiesWhatItReturns ==
    call.op = "recalcBudgetRemaining"
        => /\ call.ret # Thrown
           /\ DOMAIN call.ret = {"spent", "remaining", "budgetTotal"}
           /\ Len(call.events) = 1
           /\ call.events[1].type = "hag:budget-updated"
           /\ call.events[1].detail = call.ret
           /\ "settings" \in call.wrote
           /\ settingsSlot.budget_remaining = Num(call.ret.remaining)
           /\ call.ret.remaining = Max(0, call.ret.budgetTotal - call.ret.spent)

\* recalcBudgetRemaining has returned spent 40 of 50 and persisted the
\* remaining 10 although the dispatch failed
C19_Witness ==
    /\ call.op = "recalcBudgetRemaining"
    /\ call.ret = [spent |-> 40, remaining |-> 10, budgetTotal |-> 50]
    /\ ~call.events[1].delivered
    /\ settingsSlot.budget_remaining = Num(10)

----------------------------------------------------------------------------
(* The live-price specification: prices entered during a live auction.     *)

PriceKeys == {"", " a ", "a", "pit|b"}

PriceInputs ==
    {Num(0), Num(5), Num(-1), Frac(2), Quarter(0), Quarter(1), NumStr(3), NaN, Str, Null}

InitPrices ==
    /\ settingsSlot = Absent
    /\ rosterSlot = <<>>
    /\ targetsSlot = <<>>
    /\ pricesSlot = EmptyObj
    /\ writers = NoWriters
    /\ call = NoCall

NextPrices ==
    \/ GetLivePrices
    \/ \E playerKey \in PriceKeys, price \in PriceInputs : SetLivePrice(playerKey, price)
    \/ ClearLivePrices

SpecPrices == InitPrices /\ [][NextPrices]_vars

\* C12 as stated: after any sequence of setLivePrice and clearLivePrices
\* calls every value in the live-price map is an integer >= 1; setLivePrice
\* with a price that is not finite or not positive leaves no entry for the
\* key.
C12_PricesPositive ==
    /\ \A key \in DOMAIN pricesSlot :
          pricesSlot[key].k = "num" /\ pricesSlot[key].n >= 1
    /\ call.op = "getLivePrices"
          => \A key \in DOMAIN call.ret : call.ret[key].k = "num" /\ call.ret[key].n >= 1

----------------------------------------------------------------------------
(* The storage specification: the four slots hold whatever an older build, *)
(* another page or the user left there.  A stored item is described by the *)
(* kind of text it holds: nothing, text that is no JSON, or the JSON of     *)
(* null, of a number, of a list (its items) or of an object (its fields).  *)

AbsentDoc == [json |-> "absent"]
MalformedDoc == [json |-> "malformed"]
NullDoc == [json |-> "null"]
NumberDoc == [json |-> "number"]
ListDoc(items) == [json |-> "list", items |-> items]
ObjectDoc(fields) == [json |-> "object", fields |-> fields]

\* load(key, fallback): the fallback when there is no item or JSON.parse
\* throws, else the parsed value
load(doc, fallback) ==
    IF doc.json \in {"absent", "malformed"} THEN fallback ELSE doc

\* loadAuctionTargets()
loadAuctionTargets(doc) == load(doc, ListDoc(<<>>))

\* the settings slot as the settings operators take it
PlainSettings(doc) == IF doc.json = "object" THEN doc.fields ELSE Absent

\* getSettings() throws: s.category_weights = ... on null or on a number
GetSettingsThrows(doc) ==
    load(doc, ObjectDoc(DefaultSettings)).json \in {"null", "number"}

\* a list has an item that is null: reading a field of it throws
HasNullItem(doc) ==
    doc.json = "list" /\ \E i \in 1..Len(doc.items) : doc.items[i] = Null

\* getRoster() throws: normalizeRosterPlayer(null)
GetRosterThrows(doc) == HasNullItem(load(doc, ListDoc(<<>>)))

\* what getRoster() returns when it does not throw
GetRosterDocResult(doc) ==
    The({IF roster.json = "list" /\ Len(roster.items) > 0
         THEN ListDoc(GetRosterResult(roster.items))
         ELSE roster : roster \in {load(doc, ListDoc(<<>>))}})

\* the roster slot after a getRoster() that does not throw
GetRosterDocStored(doc) ==
    The({IF roster.json = "list" /\ GetRosterChanged(roster.items)
         THEN ListDoc(GetRosterResult(roster.items))
         ELSE doc : roster \in {load(doc, ListDoc(<<>>))}})

\* getSettings() on any stored document
GetSettingsDoc ==
    /\ CanCall
    /\ call' = Called("getSettings",
                      IF GetSettingsThrows(settingsSlot) THEN Thrown
                      ELSE GetSettingsResult(PlainSettings(settingsSlot)),
                      {}, <<>>)
    /\ UNCHANGED <<settingsSlot, rosterSlot, targetsSlot, pricesSlot, writers>>

\* getRoster() on any stored document
GetRosterDoc ==
    /\ CanCall
    /\ IF GetRosterThrows(rosterSlot)
       THEN /\ call' = Called("getRoster", Thrown, {}, <<>>)
            /\ UNCHANGED rosterSlot
       ELSE /\ rosterSlot' = GetRosterDocStored(rosterSlot)
            /\ call' = Called("getRoster", GetRosterDocResult(rosterSlot),
                              IF GetRosterDocStored(rosterSlot) # rosterSlot
                              THEN {"roster"} ELSE {}, <<>>)
    /\ UNCHANGED <<settingsSlot, targetsSlot, pricesSlot, writers>>

\* getAuctionTargets() on any stored document
GetAuctionTargetsDoc ==
    /\ CanCall
    /\ call' = Called("getAuctionTargets", loadAuctionTargets(targetsSlot), {}, <<>>)
    /\ UNCHANGED <<settingsSlot, rosterSlot, targetsSlot, pricesSlot, writers>>

\* getLivePrices() on any stored document
GetLivePricesDoc ==
    /\ CanCall
    /\ call' = Called("getLivePrices", load(pricesSlot, ObjectDoc(EmptyObj)), {}, <<>>)
    /\ UNCHANGED <<settingsSlot, rosterSlot, targetsSlot, pricesSlot, writers>>

\* recalcBudgetRemaining() throws after getRoster() has returned: reduce is
\* called on a roster or on targets that are no list, or a field is read of
\* a target that is null
RecalcThrowsAfterRoster(roster, targets) ==
    \/ roster.json # "list"
    \/ targets.json # "list"
    \/ HasNullItem(targets)

\* recalcBudgetRemaining() on any stored documents
RecalcBudgetRemainingDoc(delivered) ==
    /\ CanCall
    /\ UNCHANGED <<targetsSlot, pricesSlot, writers>>
    /\ IF GetSettingsThrows(settingsSlot) \/ GetRosterThrows(rosterSlot)
       THEN /\ call' = Called("recalcBudgetRemaining", Thrown, {}, <<>>)
            /\ UNCHANGED <<settingsSlot, rosterSlot>>
       ELSE \E roster \in {GetRosterDocResult(rosterSlot)},
               stored \in {GetRosterDocStored(rosterSlot)},
               targets \in {loadAuctionTargets(targetsSlot)} :
              /\ rosterSlot' = stored
              /\ IF RecalcThrowsAfterRoster(roster, targets)
                 THEN /\ call' = Called("recalcBudgetRemaining", Thrown,
                                        IF stored # rosterSlot THEN {"roster"} ELSE {},
                                        <<>>)
                      /\ UNCHANGED settingsSlot
                 ELSE \E result \in {RecalcResult(PlainSettings(settingsSlot),
                                                  roster.items, targets.items)} :
                        \E saved \in {RecalcStored(PlainSettings(settingsSlot),
                                                    result)} :
                          /\ settingsSlot' = ObjectDoc(saved)
                          /\ call' = Called("recalcBudgetRemaining", result,
                                            {"settings"} \cup
                                                (IF stored # rosterSlot
                                                 THEN {"roster"} ELSE {}),
                                            Dispatched(RecalcEvents(result, delivered),
                                                       saved))

SettingsDocs ==
    {AbsentDoc, MalformedDoc, NullDoc, NumberDoc, ObjectDoc(LegacySettings)}

RosterDocs ==
    {AbsentDoc, MalformedDoc, NullDoc, NumberDoc, ListDoc(<<Null>>),
     ListDoc(<<LegacyKeeper>>), ListDoc(<<LegacyKeeper, Null>>)}

TargetsDocs ==
    {AbsentDoc, MalformedDoc, NullDoc, NumberDoc, ListDoc(<<Null>>),
     ListDoc(<<[id |-> "t1", name |-> "B", plan |-> Num(25)]>>)}

PricesDocs ==
    {AbsentDoc, MalformedDoc, NullDoc, ObjectDoc([a |-> Num(5)])}

InitLoad ==
    /\ settingsSlot \in SettingsDocs
    /\ rosterSlot \in RosterDocs
    /\ targetsSlot \in TargetsDocs
    /\ pricesSlot \in PricesDocs
    /\ writers = NoWriters
    /\ call = NoCall

NextLoad ==
    \/ GetSettingsDoc
    \/ GetRosterDoc
    \/ GetAuctionTargetsDoc
    \/ GetLivePricesDoc
    \/ \E delivered \in BOOLEAN : RecalcBudgetRemainingDoc(delivered)

SpecLoad == InitLoad /\ [][NextLoad]_vars

\* C13 as stated: whatever the four slots hold, getSettings, getRoster,
\* getAuctionTargets, getLivePrices and recalcBudgetRemaining return a value
\* and do not throw.
C13_ReadsNeverThrow ==
    call.op \in {"getSettings", "getRoster", "getAuctionTargets", "getLivePrices",
                 "recalcBudgetRemaining"}
        => call.ret # Thrown

----------------------------------------------------------------------------
(* Budget claims, continued *)

\* the step leaves the roster as getRoster returns it, the targets, the
\* settings (budget_remaining with them) as they are, and emits no
\* notification
NoEffect ==
    /\ rosterSlot' = rosterSlot \/ rosterSlot' = GetRosterResult(rosterSlot)
    /\ targetsSlot' = targetsSlot
    /\ settingsSlot' = settingsSlot
    /\ call'.events = <<>>

\* C14: for an id that is in neither collection updateRosterPlayer returns
\* null, removeRosterPlayer returns false and updateAuctionTarget returns
\* without effect; none of them throws, the roster and the target list keep
\* their contents, budget_remaining is unchanged and no budget notification
\* is emitted.
C14_MissingIdNoEffect ==
    [][/\ call'.op = "updateRosterPlayer"
          => \A id \in BudgetRosterIds, patch \in BudgetRosterPatches :
                (/\ FindIndex(GetRosterResult(rosterSlot), id) = 0
                 /\ UpdateRosterPlayer(id, patch))
                    => call'.ret = Null /\ NoEffect
       /\ call'.op = "removeRosterPlayer"
          => \A id \in BudgetRosterIds :
                (/\ FindIndex(GetRosterResult(rosterSlot), id) = 0
                 /\ RemoveRosterPlayer(id))
                    => call'.ret = FALSE /\ NoEffect
       /\ call'.op = "updateAuctionTarget"
          => \A id \in TargetIds, patch \in BudgetTargetPatches, delivered \in Dispatch :
                (/\ id \notin TargetIdsOf(targetsSlot)
                 /\ UpdateAuctionTarget(id, patch, delivered))
                    => /\ call'.ret = Null
                       /\ call'.wrote = {}
                       /\ rosterSlot' = rosterSlot
                       /\ NoEffect]_vars

\* updateAuctionTarget has returned for an id that is not in the non-empty
\* target list, with a player on the roster: nothing written, nothing emitted
C14_Witness ==
    /\ call.op = "updateAuctionTarget"
    /\ call.wrote = {}
    /\ call.events = <<>>
    /\ Len(targetsSlot) = 1
    /\ Len(rosterSlot) = 1

----------------------------------------------------------------------------
(* The roster specification with setRoster among the calls: a caller may   *)
(* replace the stored roster by any list.                                  *)

NextRosterSet ==
    \/ NextRoster
    \/ \E next \in RawRosters : SetRoster(next)

SpecRosterSet == InitRoster /\ [][NextRosterSet]_vars

\* the ids of the list are pairwise distinct and each is the canonical key
\* of its entry's type and name
CanonicalIds(roster) ==
    /\ \A i \in 1..Len(roster) :
          roster[i].id = getPlayerKey(roster[i].type, roster[i].name)
    /\ \A i, j \in 1..Len(roster) : roster[i].id = roster[j].id => i = j

\* C15: after any sequence of addToRosterFromCsv, updateRosterPlayer,
\* removeRosterPlayer and setRoster calls, the list getRoster returns has
\* pairwise distinct ids and each entry's id is the canonical key of the
\* entry's type and name.
C15_RosterIdsCanonical ==
    /\ CanonicalIds(GetRosterResult(rosterSlot))
    /\ call.op = "getRoster" => CanonicalIds(call.ret)

\* updateRosterPlayer has stored an entry renamed by its patch, so that the
\* stored id is not the canonical key of the stored name, next to an entry
\* that has that key
C15_Witness ==
    /\ call.op = "updateRosterPlayer"
    /\ call.ret # Null
    /\ call.ret.id # getPlayerKey(call.ret.type, call.ret.name)
    /\ Len(rosterSlot) = 2
    /\ Len(GetRosterResult(rosterSlot)) = 1

----------------------------------------------------------------------------
(* Roster claims, continued *)

\* C16 as stated: when getRoster merges two stored entries of one canonical
\* id, the merged entry's name, team and pos are those of the earlier-seen
\* entry.
C16_MergeKeepsEarlierFields ==
    [][(call'.op = "getRoster" /\ Len(rosterSlot) = 2 /\ Len(call'.ret) = 1)
          => LET earlier == normalizeRosterPlayer(rosterSlot[1])
                 merged == call'.ret[1]
             IN  /\ merged.name = Trim(earlier.name)
                 /\ merged.team = earlier.team
                 /\ merged.pos = earlier.pos]_vars

----------------------------------------------------------------------------
(* The auction-target specification: callers pass targets and patches with *)
(* fields of their own choice, an id among them.                           *)

TargetInputs ==
    {[name |-> "A", type |-> "hit", plan |-> Num(5)],
     [id |-> "x", name |-> "B", plan |-> NumStr(3)],
     Null}

TargetPatches ==
    {[plan |-> Num(7)], [id |-> "t1", notes |-> "n"],
     [max |-> NumStr(9), enforce |-> Str]}

\* the ids callers ask for
CallerIds == TargetIds \cup {"x"}

NextTargets ==
    \/ \E target \in TargetInputs, id \in TargetIds, delivered \in Dispatch :
            AddAuctionTarget(target, id, delivered)
    \/ \E id \in CallerIds, patch \in TargetPatches, delivered \in Dispatch :
            UpdateAuctionTarget(id, patch, delivered)
    \/ \E id \in CallerIds, delivered \in Dispatch : RemoveAuctionTarget(id, delivered)
    \/ \E delivered \in Dispatch : ClearAuctionTargets(delivered)

SpecTargets == Init /\ [][NextTargets]_vars

\* C17 as stated: after any sequence of addAuctionTarget, updateAuctionTarget,
\* removeAuctionTarget and clearAuctionTargets calls, whatever fields the
\* callers pass, the targets in the persisted list have pairwise distinct
\* ids, and each addAuctionTarget returns a record whose id was not in the
\* list before the call.
C17_TargetIdsDistinct ==
    /\ [](\A i, j \in 1..Len(targetsSlot) :
              targetsSlot[i].id = targetsSlot[j].id => i = j)
    /\ [][call'.op = "addAuctionTarget"
             => call'.ret.id \notin TargetIdsOf(targetsSlot)]_vars


\* C20: updateRosterPlayer(id, patch) for an id in the roster stores and
\* returns an entry whose id is id, also when the patch carries another id,
\* at the position the entry had, and leaves every other entry of the roster
\* as it was.
C20_UpdateKeepsIdAndPlace ==
    [][call'.op = "updateRosterPlayer"
          => \A id \in RosterIds, patch \in RosterPatches :
                LET roster == GetRosterResult(rosterSlot)
                    idx == FindIndex(roster, id)
                IN  (idx # 0 /\ UpdateRosterPlayer(id, patch))
                       => /\ call'.ret # Null
                          /\ call'.ret.id = id
                          /\ Len(rosterSlot') = Len(roster)
                          /\ rosterSlot'[idx] = call'.ret
                          /\ \A j \in 1..Len(roster) :
                                j # idx => rosterSlot'[j] = roster[j]]_vars

\* updateRosterPlayer has patched the second of two entries with a patch
\* that carries the id "zzz" and the name "B": the entry is still the second
\* and its id is still "hit|a"
C20_Witness ==
    /\ call.op = "updateRosterPlayer"
    /\ call.ret # Null
    /\ call.ret.name = "B"
    /\ call.ret.id = "hit|a"
    /\ Len(rosterSlot) = 2
    /\ rosterSlot[2] = call.ret
    /\ rosterSlot[1].id # "hit|a"

\* C21: updateAuctionTarget(id, patch) for an id in the list keeps the
\* target's stored plan, max and enforce for each of the three the patch
\* leaves out, stores Number(patch.f) for each one the patch carries (NaN
\* reads back as null, being saved as JSON), and leaves the number of
\* targets, their order and every other target as they were.
C21_UpdateTargetNumbers ==
    [][call'.op = "updateAuctionTarget"
          => \A id \in CallerIds, patch \in TargetPatches :
                LET idx == FindIndex(targetsSlot, id)
                IN  (idx # 0 /\ UpdateAuctionTarget(id, patch, TRUE))
                       => /\ Len(targetsSlot') = Len(targetsSlot)
                          /\ \A j \in 1..Len(targetsSlot) :
                                j # idx => targetsSlot'[j] = targetsSlot[j]
                          /\ \A f \in {"plan", "max", "enforce"} :
                                IF f \in DOMAIN patch
                                THEN targetsSlot'[idx][f] = JsonScalar(ToNumber(patch[f]))
                                ELSE /\ f \in DOMAIN targetsSlot[idx]
                                     /\ targetsSlot'[idx][f] = targetsSlot[idx][f]]_vars

\* updateAuctionTarget has patched the second of two targets with max "9"
\* and a non-numeric enforce: its plan is still the 5 it was created with,
\* its max is the number 9, and the first target is untouched
C21_Witness ==
    /\ call.op = "updateAuctionTarget"
    /\ "targets" \in call.wrote
    /\ Len(targetsSlot) = 2
    /\ targetsSlot[2].plan = Num(5)
    /\ targetsSlot[2].max = Num(9)
    /\ targetsSlot[2].enforce = Null
    /\ targetsSlot[1].max = Num(0)

\* the settings fields recalcBudgetRemaining is not meant to touch
FrameFields ==
    {"budget_total", "hitter_slots_total", "pitcher_slots_total", "category_weights",
     "category_weights_updated_at", "value_mode"}

\* the value of field f of the document doc, as a set: empty when doc is not
\* there or has no such field
FieldOf(doc, f) == IF doc # Absent /\ f \in DOMAIN doc THEN {doc[f]} ELSE {}

\* C22 as stated: recalcBudgetRemaining leaves budget_total,
\* hitter_slots_total, pitcher_slots_total, category_weights,
\* category_weights_updated_at and value_mode of the persisted settings
\* document as they were, and does not write the auction-target list.
C22_PersistedFrame ==
    [][call'.op = "recalcBudgetRemaining"
          => /\ \A f \in FrameFields : FieldOf(settingsSlot', f) = FieldOf(settingsSlot, f)
             /\ targetsSlot' = targetsSlot
             /\ "targets" \notin call'.wrote]_vars

\* C22: recalcBudgetRemaining leaves budget_total, hitter_slots_total,
\* pitcher_slots_total, category_weights, category_weights_updated_at and
\* value_mode of the document getSettings returns as they were; the
\* persisted document holds those same values after the call, its
\* category_weights being the normalized ones, its other fields taken from
\* the defaults when nothing was persisted before; and the auction-target
\* list is not written.
C22_ReadFrame ==
    [][call'.op = "recalcBudgetRemaining"
          => /\ \A f \in FrameFields :
                   /\ FieldOf(GetSettingsResult(settingsSlot'), f)
                          = FieldOf(GetSettingsResult(settingsSlot), f)
                   /\ FieldOf(settingsSlot', f)
                          = FieldOf(GetSettingsResult(settingsSlot), f)
             /\ targetsSlot' = targetsSlot
             /\ "targets" \notin call'.wrote]_vars

\* recalcBudgetRemaining has run on settings whose budget_total was set to
\* 50 and whose weights were stamped at time 2, with a keeper costing 40:
\* only budget_remaining moved
C22_Witness ==
    /\ call.op = "recalcBudgetRemaining"
    /\ settingsSlot # Absent
    /\ settingsSlot.budget_total = Num(50)
    /\ settingsSlot.budget_remaining = Num(10)
    /\ FieldOf(settingsSlot, "category_weights_updated_at") = {Num(2)}
    /\ settingsSlot.category_weights.SB = Num(6)

----------------------------------------------------------------------------
(* The live-price specification: bids are recorded while the roster, the   *)
(* targets and the budget are being worked on.                             *)

LiveKeys == {" a ", "pit|b"}

LivePrices == {Num(5), NumStr(3), Num(0)}

NextLive ==
    \/ \E playerKey \in LiveKeys, price \in LivePrices : SetLivePrice(playerKey, price)
    \/ ClearLivePrices
    \/ \E target \in BudgetTargets, delivered \in Dispatch :
            AddAuctionTarget(target, "t1", delivered)
    \/ \E next \in BudgetSettings : SetSettings(next)
    \/ \E delivered \in Dispatch : RecalcBudgetRemaining(delivered)

SpecLive == Init /\ [][NextLive]_vars

\* C23: what recalcBudgetRemaining returns and the budget_remaining it
\* persists are determined by the settings, the roster and the target list
\* alone, so two states that differ only in the live-price map give the same
\* spent, remaining and persisted budget_remaining; and setLivePrice and
\* clearLivePrices leave settings, roster and targets as they were and
\* dispatch no notification.
C23_LivePricesApart ==
    /\ [][call'.op = "recalcBudgetRemaining"
             => /\ call'.ret = RecalcResult(settingsSlot, GetRosterResult(rosterSlot),
                                            targetsSlot)
                /\ settingsSlot'.budget_remaining = Num(call'.ret.remaining)
                /\ pricesSlot' = pricesSlot]_vars
    /\ [][call'.op \in {"setLivePrice", "clearLivePrices"}
             => /\ UNCHANGED <<settingsSlot, rosterSlot, targetsSlot>>
                /\ call'.events = <<>>
                /\ call'.wrote \subseteq {"prices"}]_vars

\* recalcBudgetRemaining has run with live prices on record for two players,
\* a keeper costing 40 and a budget of 50: the remaining budget is 10
C23_Witness ==
    /\ call.op = "recalcBudgetRemaining"
    /\ DOMAIN pricesSlot = {"a", "pit|b"}
    /\ call.ret.spent = 40
    /\ call.ret.remaining = 10
    /\ settingsSlot.budget_remaining = Num(10)

----------------------------------------------------------------------------
(* The two-writer specification: two pages share the localStorage and each *)
(* runs one addToRosterFromCsv.  A call is synchronous in its own page,    *)
(* but nothing orders its getRoster() and its setRoster() against the      *)
(* other page's: each is a step of its own.                                *)

\* the number of steps the pages have taken
WriterClock ==
    Cardinality({w \in Writers : writers[w].pc # "idle"})
        + Cardinality({w \in Writers : writers[w].pc = "saved"})

\* const roster = getRoster(), the first statement of addToRosterFromCsv, in
\* page w
WriterLoads(w, csvPlayer) ==
    /\ writers[w].pc = "idle"
    /\ \E roster \in {GetRosterResult(rosterSlot)} :
          /\ FindIndex(roster, CsvId(csvPlayer)) = 0 => Len(roster) < MaxRoster
          /\ writers' = [writers EXCEPT ![w] =
                            [pc |-> "loaded", csvPlayer |-> csvPlayer, roster |-> roster,
                             loadedAt |-> WriterClock + 1, savedAt |-> 0]]
    /\ rosterSlot' = GetRosterStored(rosterSlot)
    /\ UNCHANGED <<settingsSlot, targetsSlot, pricesSlot, call>>

\* as WriterSaves, the roster read again at the moment of saving
WriterSaves_Rereads(w) ==
    /\ writers[w].pc = "loaded"
    /\ CanCall
    /\ \E roster \in {GetRosterResult(rosterSlot)} :
          /\ rosterSlot' = CsvRoster(roster, writers[w].csvPlayer)
          /\ call' = Called("addToRosterFromCsv", CsvEntry(roster, writers[w].csvPlayer),
                            {"roster"}, <<>>)
    /\ writers' = [writers EXCEPT ![w].pc = "saved", ![w].savedAt = WriterClock + 1]
    /\ UNCHANGED <<settingsSlot, targetsSlot, pricesSlot>>

\* the rest of addToRosterFromCsv in page w: the entry merged or created
\* from the roster the page read, setRoster(next), return
WriterSaves(w) ==
    /\ writers[w].pc = "loaded"
    /\ CanCall
    /\ \E roster \in {writers[w].roster} :
          /\ rosterSlot' = CsvRoster(roster, writers[w].csvPlayer)
          /\ call' = Called("addToRosterFromCsv", CsvEntry(roster, writers[w].csvPlayer),
                            {"roster"}, <<>>)
    /\ writers' = [writers EXCEPT ![w].pc = "saved", ![w].savedAt = WriterClock + 1]
    /\ UNCHANGED <<settingsSlot, targetsSlot, pricesSlot>>

InitWriters ==
    /\ settingsSlot = Absent
    /\ rosterSlot \in {raw \in RawRosters : Len(raw) < MaxRaw}
    /\ targetsSlot = <<>>
    /\ pricesSlot = EmptyObj
    /\ call = NoCall
    /\ writers = NoWriters

NextWriters ==
    \/ \E w \in Writers, csvPlayer \in RosterCsv : WriterLoads(w, csvPlayer)
    \/ \E w \in Writers : WriterSaves(w)

SpecWriters == InitWriters /\ [][NextWriters]_vars

\* both pages are done, and both had read the roster before either saved
BothLoadedFirst ==
    /\ \A w \in Writers : writers[w].pc = "saved"
    /\ \A w, v \in Writers : writers[w].loadedAt < writers[v].savedAt

\* the page that saved last
LastWriter == CHOOSE w \in Writers : \A v \in Writers : writers[v].savedAt <= writers[w].savedAt

\* C24: when two addToRosterFromCsv calls of two pages both read the roster
\* before either saves, the persisted roster is the one the last saver built
\* from the roster it had read, and the player the earlier saver added, when
\* it is another player that was not in the roster before, is not in it.
C24_LastSaveWins ==
    BothLoadedFirst
        => \A first \in Writers \ {LastWriter} :
              LET last == writers[LastWriter]
                  lost == CsvId(writers[first].csvPlayer)
              IN  /\ rosterSlot = CsvRoster(last.roster, last.csvPlayer)
                  /\ (/\ lost # CsvId(last.csvPlayer)
                      /\ FindIndex(writers[first].roster, lost) = 0)
                         => FindIndex(rosterSlot, lost) = 0

\* starting from an empty roster, one page has added "a" and the other "B",
\* both having read the empty roster: the one that saved first was "a", and
\* the roster holds "B" alone
C24_Witness ==
    /\ BothLoadedFirst
    /\ \E first \in Writers \ {LastWriter} :
          /\ CsvId(writers[first].csvPlayer) = "hit|a"
          /\ writers[first].roster = <<>>
    /\ Len(rosterSlot) = 1
    /\ rosterSlot[1].id = "pit|b"

\* the settings fields setCategoryWeights is not meant to touch
OtherSettingsFields ==
    {"budget_total", "budget_remaining", "hitter_slots_total", "pitcher_slots_total",
     "value_mode"}

\* the weight of key c that next supplies: its number, or the default when
\* that is not a finite number
SuppliedWeight(next, c) ==
    IF IsFinite(ToNumber(next[c])) THEN ToNumber(next[c]) ELSE DEFAULT_WEIGHTS[c]

\* what setCategoryWeights(next) leaves around the weights: the time stamp
\* set to now, every other field as getSettings returned it
StampedOnly(now) ==
    /\ settingsSlot'.category_weights_updated_at = Num(now)
    /\ \A f \in OtherSettingsFields :
          FieldOf(settingsSlot', f) = FieldOf(GetSettingsResult(settingsSlot), f)

\* C25 as stated: setCategoryWeights(next) persists and returns weights in
\* which each of the 14 keys takes next's value when next supplies the key
\* (the default when it is not a finite number), otherwise the existing
\* weight, otherwise the default; it stamps category_weights_updated_at with
\* the current time and leaves every other settings field unchanged.
C25_NextThenExisting ==
    [][call'.op = "setCategoryWeights"
          => \A next \in WeightInputs, now \in Times :
                SetCategoryWeights(next, now)
                   => /\ settingsSlot'.category_weights = call'.ret
                      /\ DOMAIN call'.ret = WeightKeys
                      /\ \A c \in WeightKeys :
                            call'.ret[c] =
                                IF IsObject(next) /\ c \in DOMAIN next
                                THEN SuppliedWeight(next, c)
                                ELSE GetSettingsResult(settingsSlot).category_weights[c]
                      /\ StampedOnly(now)]_vars

\* C25: as above, except that an SB which next supplies as null is taken
\* from the SBN of next when next carries a non-null SBN.
C25_NextThenExistingButLegacy ==
    [][call'.op = "setCategoryWeights"
          => \A next \in WeightInputs, now \in Times :
                SetCategoryWeights(next, now)
                   => /\ settingsSlot'.category_weights = call'.ret
                      /\ DOMAIN call'.ret = WeightKeys
                      /\ \A c \in WeightKeys :
                            call'.ret[c] =
                                IF /\ c = "SB"
                                   /\ IsObject(next)
                                   /\ "SB" \in DOMAIN next /\ next.SB = Null
                                   /\ "SBN" \in DOMAIN next /\ next.SBN # Null
                                THEN SuppliedWeight(next, "SBN")
                                ELSE IF IsObject(next) /\ c \in DOMAIN next
                                THEN SuppliedWeight(next, c)
                                ELSE GetSettingsResult(settingsSlot).category_weights[c]
                      /\ StampedOnly(now)]_vars

\* setCategoryWeights({SB: 2}) at time 1 on settings persisted with HR 2:
\* SB is next's 2, HR the persisted 2, AVG the default 1
C25_Witness ==
    /\ call.op = "setCategoryWeights"
    /\ call.ret.SB = Num(2)
    /\ call.ret.HR = Num(2)
    /\ call.ret.AVG = Num(1)
    /\ settingsSlot.category_weights = call.ret
    /\ settingsSlot.category_weights_updated_at = Num(1)

\* C26: every budget-updated notification of a call was dispatched with the
\* settings already persisted that the call leaves behind, their
\* budget_remaining being the remaining the notification carries: a listener
\* that reads the settings sees no older budget_remaining.
C26_SavedBeforeNotified ==
    \A i \in 1..Len(call.events) :
        /\ call.events[i].settings = settingsSlot
        /\ FieldOf(call.events[i].settings, "budget_remaining")
               = {Num(call.events[i].detail.remaining)}

\* recalcBudgetRemaining has moved budget_remaining from the persisted 300 to
\* 260 and its notification was delivered: the listener found 260 persisted
C26_Witness ==
    /\ call.op = "recalcBudgetRemaining"
    /\ call.seq = 1
    /\ Len(call.events) = 1
    /\ call.events[1].delivered
    /\ call.events[1].detail.remaining = 260
    /\ call.events[1].settings.budget_remaining = Num(260)

====
